---- MODULE Spec2Model ----
(***************************************************************************)
(* State-machine model of the image generator client: the App shell, the  *)
(* credential gate (APIKeyInput) and the generation workspace              *)
(* (ImageGenerator).  Every React event handler is one action; every      *)
(* continuation of an async handler after an await is one action.  A      *)
(* state update made by a continuation of a component instance that has   *)
(* been unmounted in the meantime has no effect: requests carry the flag  *)
(* "live", cleared when their component instance is unmounted.            *)
(***************************************************************************)
EXTENDS Integers, Sequences, FiniteSets

VARIABLES
    credential,       \* App: apiKey (NoKey models null)
    keyInput,         \* APIKeyInput: apiKey (text of the key field)
    isValidating,     \* APIKeyInput: isValidating
    validationError,  \* APIKeyInput: validationError
    validations,      \* GET /v1/models calls awaiting their response
    uploadedImages,   \* ImageGenerator: uploadedImages
    prompt,           \* ImageGenerator: prompt
    generatedImage,   \* ImageGenerator: generatedImage (NoImage models null)
    isGenerating,     \* ImageGenerator: isGenerating
    error,            \* ImageGenerator: error
    reads,            \* FileReader.readAsDataURL calls awaiting onload
    gens,             \* generateImage invocations awaiting a response
    readsBeforeError, \* history: reads pending when the shown error was set
    readsBeforeReset, \* history: reads pending at the last reset
    gensBeforeReset   \* history: invocations pending at the last reset

vars == <<credential, keyInput, isValidating, validationError, validations,
          uploadedImages, prompt, generatedImage, isGenerating, error,
          reads, gens, readsBeforeError, readsBeforeReset, gensBeforeReset>>

\* the history variables: ids of pending calls; no handler reads them
histVars == <<readsBeforeError, readsBeforeReset, gensBeforeReset>>

gateVars == <<keyInput, isValidating, validationError>>
workVars == <<uploadedImages, prompt, generatedImage, isGenerating, error>>

----------------------------------------------------------------------------
(* Bounds of the model. *)

MaxPending == 2   \* fetches and file reads awaiting their completion
MaxImages == 2    \* length of uploadedImages

----------------------------------------------------------------------------
(* Texts are sequences of characters; " " is the whitespace character. *)

KeyInputs == {<<>>, <<" ">>, <<" ", "k">>}
PromptInputs == {<<>>, <<" ">>, <<"p", " ">>}

RECURSIVE TrimStart(_)
TrimStart(s) ==
    IF s # <<>> /\ Head(s) = " " THEN TrimStart(Tail(s)) ELSE s

RECURSIVE TrimEnd(_)
TrimEnd(s) ==
    IF s # <<>> /\ s[Len(s)] = " " THEN TrimEnd(SubSeq(s, 1, Len(s) - 1)) ELSE s

\* String.prototype.trim
Trim(s) == TrimEnd(TrimStart(s))

\* !text.trim()
Blank(s) == Trim(s) = <<>>

NoKey == <<"null">>
NoImage == "null"
EmptyMsg == <<>>

\* the fetches and file reads awaiting their completion
Pending == Cardinality(validations) + Cardinality(reads) + Cardinality(gens)

\* the slot of a new call: the least one no pending call holds
FreeId(pending) ==
    CHOOSE i \in 1..(Cardinality(pending) + 1) :
        /\ \A c \in pending : c.id # i
        /\ \A j \in 1..(i - 1) : \E c \in pending : c.id = j

\* every pending call of an unmounted component instance loses its instance
Detach(pending) == {[c EXCEPT !.live = FALSE] : c \in pending}

----------------------------------------------------------------------------
(* App *)

\* App's render: !apiKey selects APIKeyInput, otherwise ImageGenerator
EntryShown == credential = NoKey \/ credential = <<>>
WorkspaceShown == ~EntryShown

\* useState initial values of a freshly mounted APIKeyInput
GateMounted ==
    /\ keyInput' = <<>>
    /\ isValidating' = FALSE
    /\ validationError' = EmptyMsg

\* useState initial values of a freshly mounted ImageGenerator
WorkspaceMounted ==
    /\ uploadedImages' = <<>>
    /\ prompt' = <<>>
    /\ generatedImage' = NoImage
    /\ isGenerating' = FALSE
    /\ error' = EmptyMsg

\* handleAPIKeyValidated storing key.trim()
handleAPIKeyValidatedTrimmed(key) == Trim(key)

\* handleAPIKeyValidated: the value setApiKey receives
handleAPIKeyValidated(key) == key

\* handleLogout: setApiKey(null); the workspace instance is unmounted and a
\* fresh APIKeyInput is mounted.  The unmounted instance's fetches keep running
\* without it; the onload of its file reads only sets state of the unmounted
\* instance, which does nothing, so its reads are pending no longer.
handleLogout ==
    /\ WorkspaceShown
    /\ credential' = NoKey
    /\ WorkspaceMounted
    /\ GateMounted
    /\ gens' = Detach(gens)
    /\ reads' = {}
    /\ UNCHANGED validations

----------------------------------------------------------------------------
(* APIKeyInput *)

MsgKeyRequired == <<"Please enter your OpenAI API key">>
MsgInvalidKey == <<"Invalid API key. Please check and try again.">>
MsgNetworkError == <<"Network error. Please check your connection and try again.">>

\* outcomes of fetch('/v1/models'): response.ok, !response.ok, rejection
ValidationOutcomes == {"ok", "status", "reject"}

\* onChange of the key field
setApiKeyInput(v) ==
    /\ EntryShown
    /\ keyInput' = v
    /\ UNCHANGED <<credential, isValidating, validationError, validations,
                   workVars, reads, gens>>

\* validateAPIKey without its early return
validateAPIKeyNoBlankCheck ==
    /\ isValidating' = TRUE
    /\ validationError' = EmptyMsg
    /\ validations' = validations \cup
           {[id |-> FreeId(validations), key |-> keyInput, live |-> TRUE]}
    /\ UNCHANGED <<credential, keyInput, workVars, reads, gens>>

\* validateAPIKey up to its await: the early return, or the request
validateAPIKey ==
    /\ IF Blank(keyInput)
       THEN /\ validationError' = MsgKeyRequired
            /\ UNCHANGED <<isValidating, validations>>
       ELSE /\ isValidating' = TRUE
            /\ validationError' = EmptyMsg
            /\ validations' = validations \cup
                   {[id |-> FreeId(validations),
                     key |-> keyInput, live |-> TRUE]}
    /\ UNCHANGED <<credential, keyInput, workVars, reads, gens>>

\* disabled attribute of the submit button
SubmitDisabled == isValidating \/ Blank(keyInput)

\* the model holds at most MaxPending pending calls
ValidationSlotFree == Blank(keyInput) \/ Pending < MaxPending

\* onClick of the submit button
ClickValidate ==
    /\ EntryShown
    /\ ~SubmitDisabled
    /\ ValidationSlotFree
    /\ validateAPIKey

\* handleKeyPress with e.key === 'Enter'
handleKeyPress ==
    /\ EntryShown
    /\ ValidationSlotFree
    /\ validateAPIKey

\* validateAPIKey after its await, for the pending call v
validateAPIKeyResume(v, outcome) ==
    /\ v \in validations
    /\ IF outcome = "ok"
       THEN /\ credential' = handleAPIKeyValidated(v.key)
            /\ IF EntryShown
               THEN \* APIKeyInput is unmounted, ImageGenerator is mounted
                    /\ GateMounted
                    /\ WorkspaceMounted
                    /\ validations' = Detach(validations \ {v})
               ELSE /\ validations' = validations \ {v}
                    /\ UNCHANGED <<gateVars, workVars>>
       ELSE /\ validations' = validations \ {v}
            /\ IF v.live
               THEN /\ validationError' =
                          IF outcome = "status" THEN MsgInvalidKey
                                                ELSE MsgNetworkError
                    /\ isValidating' = FALSE
                    /\ UNCHANGED keyInput
               ELSE UNCHANGED gateVars
            /\ UNCHANGED <<credential, workVars>>
    /\ UNCHANGED <<reads, gens>>

ValidationResponse ==
    \E v \in validations : \E outcome \in ValidationOutcomes :
        validateAPIKeyResume(v, outcome)

----------------------------------------------------------------------------
(* ImageGenerator: uploads, prompt, reset *)

MsgNeedInput == <<"Please upload at least one image and enter a prompt">>
MsgImagesOnly == <<"Please upload image files only">>

\* files the user can offer: file.type as <<type, subtype>>, and the content
Files ==
    { [type |-> <<"image", "png">>, data |-> "A"],
      [type |-> <<"image", "jpeg">>, data |-> "B"],
      [type |-> <<"text", "plain">>, data |-> "T"] }

\* file.type.startsWith('image/')
IsImageFile(file) == file.type[1] = "image"

\* the result of FileReader.readAsDataURL
DataURL(file) == [mediatype |-> file.type, base64 |-> file.data]

\* handleFileUpload without its type test
handleFileUploadNoCheck(file, st) ==
    [st EXCEPT !.reads = st.reads \cup
        {[id |-> FreeId(st.reads), url |-> DataURL(file)]}]

\* handleFileUpload, applied to the pair st of the error message and the
\* pending reads: a refusal, or a started read
handleFileUpload(file, st) ==
    IF ~IsImageFile(file)
    THEN [st EXCEPT !.error = MsgImagesOnly]
    ELSE [st EXCEPT !.reads = st.reads \cup
              {[id |-> FreeId(st.reads), url |-> DataURL(file)]}]

\* files.forEach(file => handleFileUpload(file))
RECURSIVE UploadEach(_, _)
UploadEach(files, st) ==
    IF files = <<>> THEN st
    ELSE UploadEach(Tail(files), handleFileUpload(Head(files), st))

\* the files of a drop that pass handleDrop's own type test, in order
RECURSIVE ImagesOf(_)
ImagesOf(files) ==
    IF files = <<>> THEN <<>>
    ELSE IF IsImageFile(Head(files))
         THEN <<Head(files)>> \o ImagesOf(Tail(files))
         ELSE ImagesOf(Tail(files))

\* selections and drops of one file list
FileLists == UNION {[1..n -> Files] : n \in {1, 2}}

\* the model holds at most MaxPending pending calls and MaxImages images
ReadSlotsFree(files) ==
    /\ Pending + Len(ImagesOf(files)) <= MaxPending
    /\ Len(uploadedImages) + Cardinality(reads) + Len(ImagesOf(files))
           <= MaxImages

\* onChange of the file input
SelectFiles(files) ==
    /\ WorkspaceShown
    /\ ReadSlotsFree(files)
    /\ LET st == UploadEach(files, [error |-> error, reads |-> reads])
       IN  /\ error' = st.error
           /\ reads' = st.reads
    /\ UNCHANGED <<credential, gateVars, validations, uploadedImages, prompt,
                   generatedImage, isGenerating, gens>>

\* handleDrop
handleDrop(files) ==
    /\ WorkspaceShown
    /\ ReadSlotsFree(files)
    /\ LET st == UploadEach(ImagesOf(files), [error |-> error, reads |-> reads])
       IN  /\ error' = st.error
           /\ reads' = st.reads
    /\ UNCHANGED <<credential, gateVars, validations, uploadedImages, prompt,
                   generatedImage, isGenerating, gens>>

\* reader.onload of the pending read r
readerOnload(r) ==
    /\ r \in reads
    /\ reads' = reads \ {r}
    /\ uploadedImages' = Append(uploadedImages, r.url)
    /\ error' = EmptyMsg
    /\ UNCHANGED <<credential, gateVars, validations, prompt, generatedImage,
                   isGenerating, gens>>

\* the elements of images from position i on whose position is not index
RECURSIVE KeepFrom(_, _, _)
KeepFrom(images, i, index) ==
    IF i > Len(images) THEN <<>>
    ELSE (IF i # index THEN <<images[i]>> ELSE <<>>)
             \o KeepFrom(images, i + 1, index)

\* the elements of images that differ from the one at position index
RECURSIVE KeepOthers(_, _)
KeepOthers(images, image) ==
    IF images = <<>> THEN <<>>
    ELSE (IF Head(images) # image THEN <<Head(images)>> ELSE <<>>)
             \o KeepOthers(Tail(images), image)

\* prev.filter(image => image !== prev[index])
FilterOutByValue(images, index) == KeepOthers(images, images[index])

\* prev.filter((_, i) => i !== index), with positions counted from 1
FilterOut(images, index) == KeepFrom(images, 1, index)

\* removeImage, by the remove button of the image at position index
removeImage(index) ==
    /\ WorkspaceShown
    /\ index \in 1..Len(uploadedImages)
    /\ uploadedImages' = FilterOut(uploadedImages, index)
    /\ UNCHANGED <<credential, gateVars, validations, prompt, generatedImage,
                   isGenerating, error, reads, gens>>

\* onChange of the prompt textarea
setPrompt(v) ==
    /\ WorkspaceShown
    /\ prompt' = v
    /\ UNCHANGED <<credential, gateVars, validations, uploadedImages,
                   generatedImage, isGenerating, error, reads, gens>>

\* refreshGeneration without its setError('')
refreshGenerationKeepsError ==
    /\ WorkspaceShown
    /\ uploadedImages' = <<>>
    /\ prompt' = <<>>
    /\ generatedImage' = NoImage
    /\ UNCHANGED <<credential, gateVars, validations, isGenerating, error,
                   reads, gens>>

\* refreshGeneration
refreshGeneration ==
    /\ WorkspaceShown
    /\ uploadedImages' = <<>>
    /\ prompt' = <<>>
    /\ generatedImage' = NoImage
    /\ error' = EmptyMsg
    /\ UNCHANGED <<credential, gateVars, validations, isGenerating, reads, gens>>

----------------------------------------------------------------------------
(* ImageGenerator: generateImage *)

\* messages of the errors the runtime throws
MsgFetchFailed == <<"Failed to fetch">>
MsgJSONSyntax == <<"Unexpected token in JSON">>
MsgTypeError == <<"Cannot read properties of undefined">>
MsgImageFailed == <<"Failed to generate image">>

\* `Vision API error: ${status} ${statusText}`
VisionFallback(resp) == <<"Vision API error:", resp.status, resp.statusText>>

NoRefined == "undefined"
NoMessage == <<>>
ProviderMessages == {<<"Rate limit reached">>}
RefinedPrompts == {"refined"}
ImageURLs == {"url-1", "url-2"}

\* What a fetch can come to.  resolved: the promise resolved with a response
\* (FALSE: it rejected).  json: what response.json() gives: "invalid" (it
\* throws), "error" (an object whose error.message is message, NoMessage when
\* absent or empty), "result" (an object with the field the success path
\* reads, holding value), "empty" (an object without that field).
Response(resolved, status, statusText, json, message, value) ==
    [resolved |-> resolved, status |-> status, statusText |-> statusText,
     json |-> json, message |-> message, value |-> value]

Rejected == Response(FALSE, 0, "", "invalid", NoMessage, NoRefined)

ErrorResponses ==
    {Response(TRUE, 429, "Too Many Requests", "error", m, NoRefined) :
         m \in ProviderMessages}
    \cup {Response(TRUE, 500, "Internal Server Error", "error", NoMessage, NoRefined),
          Response(TRUE, 502, "Bad Gateway", "invalid", NoMessage, NoRefined)}

VisionResponses ==
    {Rejected} \cup ErrorResponses
    \cup {Response(TRUE, 200, "OK", "result", NoMessage, c) : c \in RefinedPrompts}
    \cup {Response(TRUE, 200, "OK", "invalid", NoMessage, NoRefined),
          Response(TRUE, 200, "OK", "empty", NoMessage, NoRefined)}

ImageResponses ==
    {Rejected} \cup ErrorResponses
    \cup {Response(TRUE, 200, "OK", "result", NoMessage, u) : u \in ImageURLs}
    \cup {Response(TRUE, 200, "OK", "invalid", NoMessage, NoRefined),
          Response(TRUE, 200, "OK", "empty", NoMessage, NoRefined)}

\* response.ok
Ok(resp) == resp.status >= 200 /\ resp.status <= 299

\* errorData.error?.message || fallback
MessageOr(resp, fallback) ==
    IF resp.json = "error" /\ resp.message # NoMessage THEN resp.message
    ELSE fallback

\* The try block from one await to the next, for a response to the request
\* of either step: the message of the error it throws, or EmptyMsg when it
\* runs on with resp.value.
Thrown(resp, fallback) ==
    IF ~resp.resolved THEN MsgFetchFailed
    ELSE IF resp.json = "invalid" THEN MsgJSONSyntax
    ELSE IF ~Ok(resp) THEN MessageOr(resp, fallback)
    ELSE IF resp.json # "result" THEN MsgTypeError
    ELSE EmptyMsg

\* the try block after the chat-completion fetch without its
\* !visionResponse.ok branch
VisionThrownNoStatus(resp) ==
    IF ~resp.resolved THEN MsgFetchFailed
    ELSE IF resp.json = "invalid" THEN MsgJSONSyntax
    ELSE IF resp.json # "result" THEN MsgTypeError
    ELSE EmptyMsg

\* the try block after the chat-completion fetch
VisionThrown(resp) == Thrown(resp, VisionFallback(resp))

\* the try block after the image-generation fetch
ImageThrown(resp) == Thrown(resp, MsgImageFailed)

\* generateImage testing !prompt in place of !prompt.trim()
generateImageNoTrim ==
    /\ IF Len(uploadedImages) = 0 \/ prompt = <<>>
       THEN /\ error' = MsgNeedInput
            /\ UNCHANGED <<isGenerating, gens>>
       ELSE /\ isGenerating' = TRUE
            /\ error' = EmptyMsg
            /\ gens' = gens \cup
                   {[id |-> FreeId(gens), live |-> TRUE,
                     step |-> "vision", bearer |-> credential,
                     refined |-> NoRefined]}
    /\ UNCHANGED <<credential, gateVars, validations, uploadedImages, prompt,
                   generatedImage, reads>>

\* generateImage up to its first await: the early return, or the
\* chat-completion request with the closure's credential, images and prompt
generateImage ==
    /\ IF Len(uploadedImages) = 0 \/ Blank(prompt)
       THEN /\ error' = MsgNeedInput
            /\ UNCHANGED <<isGenerating, gens>>
       ELSE /\ isGenerating' = TRUE
            /\ error' = EmptyMsg
            /\ gens' = gens \cup
                   {[id |-> FreeId(gens), live |-> TRUE,
                     step |-> "vision", bearer |-> credential,
                     refined |-> NoRefined]}
    /\ UNCHANGED <<credential, gateVars, validations, uploadedImages, prompt,
                   generatedImage, reads>>

\* disabled attribute of the generate button without isGenerating
GenerateDisabledIgnoresFlag == Len(uploadedImages) = 0 \/ Blank(prompt)

\* disabled attribute of the generate button
GenerateDisabled ==
    isGenerating \/ Len(uploadedImages) = 0 \/ Blank(prompt)

\* the model holds at most MaxPending pending calls
GenSlotFree ==
    Len(uploadedImages) = 0 \/ Blank(prompt) \/ Pending < MaxPending

\* onClick of the generate button
ClickGenerate ==
    /\ WorkspaceShown
    /\ ~GenerateDisabled
    /\ GenSlotFree
    /\ generateImage

\* catch that also drops the Generated Image
generateImageCatchClearsImage(g, message) ==
    /\ gens' = gens \ {g}
    /\ IF g.live
       THEN /\ error' = message
            /\ isGenerating' = FALSE
            /\ generatedImage' = NoImage
       ELSE UNCHANGED <<error, isGenerating, generatedImage>>
    /\ UNCHANGED <<credential, gateVars, validations, uploadedImages, prompt,
                   reads>>

\* catch without the finally block
generateImageCatchNoFinally(g, message) ==
    /\ gens' = gens \ {g}
    /\ IF g.live
       THEN error' = message
       ELSE UNCHANGED error
    /\ UNCHANGED <<credential, gateVars, validations, uploadedImages, prompt,
                   generatedImage, isGenerating, reads>>

\* catch that sends the chat-completion request again
generateImageCatchRetries(g, message) ==
    /\ gens' = (gens \ {g}) \cup
           {[g EXCEPT !.step = "vision", !.refined = NoRefined]}
    /\ IF g.live
       THEN error' = message
       ELSE UNCHANGED error
    /\ UNCHANGED <<credential, gateVars, validations, uploadedImages, prompt,
                   generatedImage, isGenerating, reads>>

\* catch that keeps a message already shown
generateImageCatchKeepsFirstError(g, message) ==
    /\ gens' = gens \ {g}
    /\ IF g.live
       THEN /\ error' = IF error = EmptyMsg THEN message ELSE error
            /\ isGenerating' = FALSE
       ELSE UNCHANGED <<error, isGenerating>>
    /\ UNCHANGED <<credential, gateVars, validations, uploadedImages, prompt,
                   generatedImage, reads>>

\* catch and finally of the invocation g, for the thrown message
generateImageCatch(g, message) ==
    /\ gens' = gens \ {g}
    /\ IF g.live
       THEN /\ error' = message
            /\ isGenerating' = FALSE
       ELSE UNCHANGED <<error, isGenerating>>
    /\ UNCHANGED <<credential, gateVars, validations, uploadedImages, prompt,
                   generatedImage, reads>>

\* generateImage from the chat-completion response to the image-generation
\* request, or to the end of the invocation
generateImageVision(g, resp) ==
    /\ g \in gens
    /\ g.step = "vision"
    /\ IF VisionThrown(resp) # EmptyMsg
       THEN generateImageCatch(g, VisionThrown(resp))
       ELSE /\ gens' = (gens \ {g}) \cup
                   {[g EXCEPT !.step = "image", !.refined = resp.value]}
            /\ UNCHANGED <<credential, gateVars, validations, workVars, reads>>

\* generateImage's last step publishing the URL only when no image is shown
generateImageImageKeepsPrior(g, resp) ==
    /\ g \in gens
    /\ g.step = "image"
    /\ IF ImageThrown(resp) # EmptyMsg
       THEN generateImageCatch(g, ImageThrown(resp))
       ELSE /\ gens' = gens \ {g}
            /\ IF g.live
               THEN /\ generatedImage' =
                          IF generatedImage = NoImage THEN resp.value
                                                      ELSE generatedImage
                    /\ isGenerating' = FALSE
               ELSE UNCHANGED <<generatedImage, isGenerating>>
            /\ UNCHANGED <<credential, gateVars, validations, uploadedImages,
                           prompt, error, reads>>

\* generateImage from the image-generation response to its end
generateImageImage(g, resp) ==
    /\ g \in gens
    /\ g.step = "image"
    /\ IF ImageThrown(resp) # EmptyMsg
       THEN generateImageCatch(g, ImageThrown(resp))
       ELSE /\ gens' = gens \ {g}
            /\ IF g.live
               THEN /\ generatedImage' = resp.value
                    /\ isGenerating' = FALSE
               ELSE UNCHANGED <<generatedImage, isGenerating>>
            /\ UNCHANGED <<credential, gateVars, validations, uploadedImages,
                           prompt, error, reads>>

VisionResponse ==
    \E g \in gens : \E resp \in VisionResponses : generateImageVision(g, resp)

ImageResponse ==
    \E g \in gens : \E resp \in ImageResponses : generateImageImage(g, resp)

----------------------------------------------------------------------------

Init ==
    /\ credential = NoKey
    /\ keyInput = <<>>
    /\ isValidating = FALSE
    /\ validationError = EmptyMsg
    /\ validations = {}
    /\ uploadedImages = <<>>
    /\ prompt = <<>>
    /\ generatedImage = NoImage
    /\ isGenerating = FALSE
    /\ error = EmptyMsg
    /\ reads = {}
    /\ gens = {}
    /\ readsBeforeError = {}
    /\ readsBeforeReset = {}
    /\ gensBeforeReset = {}

Next ==
    \/ \E v \in KeyInputs : setApiKeyInput(v) /\ UNCHANGED histVars
    \/ ClickValidate /\ UNCHANGED histVars
    \/ handleKeyPress /\ UNCHANGED histVars
    \/ ValidationResponse /\ UNCHANGED histVars
    \/ handleLogout /\ UNCHANGED histVars
    \/ \E files \in FileLists : SelectFiles(files) /\ UNCHANGED histVars
    \/ \E files \in FileLists : handleDrop(files) /\ UNCHANGED histVars
    \/ \E r \in reads : readerOnload(r) /\ UNCHANGED histVars
    \/ \E index \in 1..MaxImages : removeImage(index) /\ UNCHANGED histVars
    \/ \E v \in PromptInputs : setPrompt(v) /\ UNCHANGED histVars
    \/ refreshGeneration /\ UNCHANGED histVars
    \/ ClickGenerate /\ UNCHANGED histVars
    \/ VisionResponse /\ UNCHANGED histVars
    \/ ImageResponse /\ UNCHANGED histVars

Spec == Init /\ [][Next]_vars

\* generateImage called as a handler, whatever the generate button's disabled
\* attribute says
CallGenerateImage ==
    /\ WorkspaceShown
    /\ GenSlotFree
    /\ generateImage
    /\ UNCHANGED histVars

NextHandler ==
    \/ Next
    \/ CallGenerateImage

\* the program with generateImage also reachable past its button
SpecHandler == Init /\ [][NextHandler]_vars

\* every issued fetch of generateImage resolves or rejects in the end
FairSpec ==
    /\ Spec
    /\ WF_vars(VisionResponse /\ UNCHANGED histVars)
    /\ WF_vars(ImageResponse /\ UNCHANGED histVars)

\* the ids of the pending reads
ReadIds(pending) == {r.id : r \in pending}

\* the ids of the pending invocations of the mounted workspace
LiveGenIds(pending) == {g.id : g \in {h \in pending : h.live}}

\* The history of a step of the given kind ("reset", "upload" or "other").
\* readsBeforeError: the reads that were pending when the shown message
\* replaced another value of error, while no file has been offered since.
\* readsBeforeReset, gensBeforeReset: the reads and the invocations of the
\* mounted workspace that were pending at the last reset, while no file has
\* been offered since (for the reads).
Track(kind) ==
    /\ readsBeforeError' =
           IF error' = EmptyMsg THEN {}
           ELSE IF error' # error THEN ReadIds(reads) \cap ReadIds(reads')
           ELSE IF kind = "upload" THEN {}
           ELSE readsBeforeError \cap ReadIds(reads')
    /\ readsBeforeReset' =
           IF kind = "reset" THEN ReadIds(reads)
           ELSE IF kind = "upload" THEN {}
           ELSE readsBeforeReset \cap ReadIds(reads')
    /\ gensBeforeReset' =
           IF kind = "reset" THEN LiveGenIds(gens)
           ELSE gensBeforeReset \cap LiveGenIds(gens')

NextTraced ==
    \/ \E v \in KeyInputs : setApiKeyInput(v) /\ Track("other")
    \/ ClickValidate /\ Track("other")
    \/ handleKeyPress /\ Track("other")
    \/ ValidationResponse /\ Track("other")
    \/ handleLogout /\ Track("other")
    \/ \E files \in FileLists : SelectFiles(files) /\ Track("upload")
    \/ \E files \in FileLists : handleDrop(files) /\ Track("upload")
    \/ \E r \in reads : readerOnload(r) /\ Track("other")
    \/ \E index \in 1..MaxImages : removeImage(index) /\ Track("other")
    \/ \E v \in PromptInputs : setPrompt(v) /\ Track("other")
    \/ refreshGeneration /\ Track("reset")
    \/ ClickGenerate /\ Track("other")
    \/ VisionResponse /\ Track("other")
    \/ ImageResponse /\ Track("other")

\* the program with the history of its pending calls recorded
SpecTraced == Init /\ [][NextTraced]_vars

----------------------------------------------------------------------------
(* What a step does to the network, read off the pending calls. *)

\* the step issues a chat-completion request
ChatIssued ==
    \E h \in gens' : h.step = "vision" /\ \A g \in gens : g.id # h.id

\* the step issues the image-generation request of the invocation g
ImageIssuedFor(g) ==
    \E h \in gens' : h.id = g.id /\ h.step = "image" /\ g.step = "vision"

\* the step issues a GET to the model-listing endpoint
ValidationIssued ==
    \E w \in validations' : \A v \in validations : v.id # w.id

\* the invocation g is over after the step
Finished(g) == \A h \in gens' : h.id # g.id

\* a call that failed: transport failure, non-success status, unparsable body
CallFailed(resp) == ~resp.resolved \/ ~Ok(resp) \/ resp.json = "invalid"

\* a call that succeeded and returned what the success path reads
CallSucceeded(resp) == resp.resolved /\ Ok(resp) /\ resp.json = "result"

LiveGens == {g \in gens : g.live}

----------------------------------------------------------------------------
(* Claims *)

\* C1: generateImage triggered with no uploaded image or with a prompt that is
\* empty after trimming sets the validation message, issues no request and
\* leaves the generating flag alone; a chat-completion request is only ever
\* issued from a state with an uploaded image and a non-blank prompt.
C1_PreconditionGuardsRequests ==
    [][ /\ (WorkspaceShown /\ generateImage
               /\ (Len(uploadedImages) = 0 \/ Blank(prompt)))
            => /\ error' = MsgNeedInput
               /\ gens' = gens
               /\ validations' = validations
               /\ isGenerating' = isGenerating
        /\ ChatIssued => Len(uploadedImages) > 0 /\ ~Blank(prompt)
      ]_vars

\* the validation message is shown, after generateImage ran on a whitespace prompt
C1_Witness ==
    /\ error = MsgNeedInput
    /\ Len(uploadedImages) > 0
    /\ prompt = <<" ">>
    /\ gens = {}

\* C2: the image-generation request of an invocation is issued only by the
\* step that takes a successful, parsed chat-completion response of the same
\* invocation; a failed refinement call ends the invocation without an
\* image-generation request, and the workspace that started it shows the
\* provider's message when there is one, a generic message otherwise.
C2_RefinementFailureStopsChain ==
    [][ \A g \in gens :
          /\ ImageIssuedFor(g) =>
                \E resp \in VisionResponses :
                    /\ generateImageVision(g, resp)
                    /\ resp.resolved /\ Ok(resp) /\ resp.json # "invalid"
          /\ \A resp \in VisionResponses :
                (generateImageVision(g, resp) /\ CallFailed(resp)) =>
                    /\ Finished(g)
                    /\ ~ImageIssuedFor(g)
                    /\ g.live =>
                          /\ error' # EmptyMsg
                          /\ (resp.resolved /\ resp.json = "error"
                                  /\ resp.message # NoMessage)
                                 => error' = resp.message
                          /\ error' \in ProviderMessages \cup
                                 {VisionFallback(resp), MsgFetchFailed,
                                  MsgJSONSyntax}
      ]_vars

\* a refinement call was refused without a provider message: the invocation is
\* over and the generic message is shown
C2_Witness ==
    /\ error = <<"Vision API error:", 500, "Internal Server Error">>
    /\ ~isGenerating
    /\ gens = {}

\* C3: no step of an invocation whose image-synthesis call fails touches the
\* Generated Image (the start, the refinement response, the failed synthesis
\* response), and the failure sets an error message in the workspace that
\* started the invocation.
C3_SynthesisFailureKeepsImage ==
    [][ /\ (WorkspaceShown /\ generateImage) => generatedImage' = generatedImage
        /\ \A g \in gens :
             /\ \A resp \in VisionResponses :
                    generateImageVision(g, resp) =>
                        generatedImage' = generatedImage
             /\ \A resp \in ImageResponses :
                    (generateImageImage(g, resp) /\ CallFailed(resp)) =>
                        /\ generatedImage' = generatedImage
                        /\ Finished(g)
                        /\ g.live => (error' # EmptyMsg /\ ~isGenerating')
      ]_vars

\* an earlier Generated Image is still there after a later synthesis call failed
C3_Witness ==
    /\ generatedImage # NoImage
    /\ error = MsgImageFailed
    /\ gens = {}

\* C4 as stated: when both calls succeed the Generated Image is the returned
\* URL, the error message is empty and the generating flag is false.
C4_Original ==
    [][ \A g \in gens : \A resp \in ImageResponses :
          (generateImageImage(g, resp) /\ CallSucceeded(resp) /\ g.live) =>
              /\ generatedImage' = resp.value
              /\ error' = EmptyMsg
              /\ isGenerating' = FALSE
      ]_vars

\* C4 as amended: when both calls succeed the Generated Image becomes the
\* returned URL and the generating flag false; the invocation cleared the error
\* message when it started and its completion leaves the message as it is:
\* empty, or the image-files-only message of a file refused in the meantime.
C4_SuccessPublishesImage ==
    [][ /\ (WorkspaceShown /\ generateImage /\ ChatIssued) => error' = EmptyMsg
        /\ \A g \in gens : \A resp \in ImageResponses :
             (generateImageImage(g, resp) /\ CallSucceeded(resp) /\ g.live) =>
                 /\ generatedImage' = resp.value
                 /\ isGenerating' = FALSE
                 /\ Finished(g)
                 /\ error' = error
                 /\ error' \in {EmptyMsg, MsgImagesOnly}
      ]_vars

\* a generation succeeded after a non-image file was refused while it ran
C4_Witness ==
    /\ generatedImage # NoImage
    /\ ~isGenerating
    /\ error = MsgImagesOnly
    /\ gens = {}

\* C5: the generating flag is true only while an invocation of the mounted
\* workspace awaits a response, and, every issued call resolving or rejecting,
\* a true generating flag becomes false again.
C5_GeneratingFlagCleared ==
    /\ [](isGenerating => LiveGens # {})
    /\ (isGenerating ~> ~isGenerating)

\* an invocation ended by a transport failure, the flag cleared
C5_Witness ==
    /\ error = MsgFetchFailed
    /\ ~isGenerating
    /\ gens = {}
    /\ WorkspaceShown

\* C6: a success status for a submitted key makes that key the credential and
\* shows the workspace; every invocation started there sends that credential
\* as the bearer token of its chat-completion request and of its
\* image-generation request, and the workspace issues no validation request.
C6_ValidatedKeyIsBearer ==
    [][ /\ \A v \in validations :
              validateAPIKeyResume(v, "ok") =>
                  (credential' = v.key /\ WorkspaceShown')
        /\ \A h \in gens' :
              IF \E g \in gens : g.id = h.id
              THEN \A g \in gens : g.id = h.id => h.bearer = g.bearer
              ELSE h.bearer = credential /\ WorkspaceShown
        /\ ValidationIssued => EntryShown
      ]_vars

\* the workspace, with the image-generation request of an invocation carrying
\* the validated key
C6_Witness ==
    /\ WorkspaceShown
    /\ \E g \in gens : g.live /\ g.step = "image" /\ g.bearer = credential
    /\ validations = {}

\* C7 as stated: after a validation call that failed (non-success status or
\* transport failure) the credential is absent, the entry screen is shown with
\* the matching message, and the validating flag is false.
C7_Original ==
    [][ \A v \in validations : \A outcome \in {"status", "reject"} :
          validateAPIKeyResume(v, outcome) =>
              /\ credential' = NoKey
              /\ EntryShown'
              /\ validationError' = IF outcome = "status" THEN MsgInvalidKey
                                                          ELSE MsgNetworkError
              /\ isValidating' = FALSE
      ]_vars

\* C8 as stated: submitting an empty or whitespace-only key issues no
\* validation request, sets the input-required message and leaves the
\* validating flag false and the credential absent.
C8_Original ==
    [][ (EntryShown /\ Blank(keyInput) /\ validateAPIKey) =>
            /\ ~ValidationIssued
            /\ validationError' = MsgKeyRequired
            /\ isValidating' = FALSE
            /\ credential' = NoKey
      ]_vars

\* C9 as stated: on the entry screen at most one validation request is
\* outstanding, the validating flag is true while it is, and no submission
\* starts a second one.
C9_Original ==
    EntryShown =>
        /\ Cardinality(validations) <= 1
        /\ validations # {} => isValidating

\* C10: at most one invocation of the mounted workspace is in flight; while it
\* is, the generating flag is true and the generate button disabled, whatever
\* resets, removals, uploads and prompt edits come between.
C10_OneGenerationInFlight ==
    /\ Cardinality(LiveGens) <= 1
    /\ LiveGens # {} => (WorkspaceShown /\ isGenerating /\ GenerateDisabled)

\* an invocation still in flight after a reset cleared images and prompt
C10_Witness ==
    /\ \E g \in gens : g.live /\ g.step = "image"
    /\ uploadedImages = <<>>
    /\ prompt = <<>>
    /\ isGenerating

\* C11: refreshGeneration is one step after which the uploaded images, the
\* prompt, the Generated Image and the error message are all cleared; it
\* changes nothing else.
C11_ResetClearsAllFour ==
    [][ refreshGeneration =>
            /\ uploadedImages' = <<>>
            /\ prompt' = <<>>
            /\ generatedImage' = NoImage
            /\ error' = EmptyMsg
            /\ UNCHANGED <<credential, gateVars, validations, isGenerating,
                           reads, gens>>
      ]_vars

\* all four cleared while an invocation that needed an image and a prompt
\* still awaits its refinement response
C11_Witness ==
    /\ \E g \in gens : g.live /\ g.step = "vision"
    /\ uploadedImages = <<>>
    /\ prompt = <<>>
    /\ generatedImage = NoImage
    /\ error = EmptyMsg

C13_ScreenFollowsCredential ==
    /\ credential = NoKey
    /\ [](/\ credential # <<>>
          /\ WorkspaceShown <=> credential # NoKey
          /\ EntryShown =>
                (/\ LiveGens = {} /\ reads = {} /\ ~isGenerating
                 /\ uploadedImages = <<>> /\ generatedImage = NoImage)
          /\ WorkspaceShown =>
                (/\ \A v \in validations : ~v.live
                 /\ ~isValidating /\ keyInput = <<>>))
    /\ [][ /\ (credential = NoKey /\ credential' # NoKey) =>
                  \E v \in validations :
                      validateAPIKeyResume(v, "ok") /\ credential' = v.key
           /\ handleLogout => (credential' = NoKey /\ EntryShown')
         ]_vars

\* the entry screen after a logout: a generation of the left workspace is
\* still running
C13_Witness ==
    /\ credential = NoKey
    /\ EntryShown
    /\ \E g \in gens : ~g.live

\* C14: a request is issued only by the user's trigger or, for the
\* image-generation request, by the successful refinement response of the same
\* invocation: one GET per validateAPIKey, one chat-completion and at most one
\* image-generation request per generateImage; a response issues no other
\* request, a failure ends the invocation, and a new invocation starts at the
\* refinement step without a refined prompt.
C14_NoRetry ==
    [][ /\ ValidationIssued =>
              /\ EntryShown /\ validateAPIKey
              /\ Cardinality(validations') = Cardinality(validations) + 1
        /\ \A v \in validations : \A outcome \in ValidationOutcomes :
              validateAPIKeyResume(v, outcome) =>
                  (~ValidationIssued /\ \A w \in validations' : w.id # v.id)
        /\ ChatIssued =>
              /\ WorkspaceShown /\ generateImage
              /\ Cardinality(gens') = Cardinality(gens) + 1
              /\ \A h \in gens' :
                     (\A g \in gens : g.id # h.id) => h.refined = NoRefined
        /\ \A g \in gens :
              /\ \A h \in gens' :
                     h.id = g.id => (g.step = "image" => h.step = "image")
              /\ \A resp \in VisionResponses :
                     generateImageVision(g, resp) =>
                         /\ ~ChatIssued
                         /\ Cardinality(gens') <= Cardinality(gens)
                         /\ ~CallSucceeded(resp) => Finished(g)
              /\ \A resp \in ImageResponses :
                     generateImageImage(g, resp) =>
                         (~ChatIssued /\ Finished(g))
      ]_vars

\* a provider refusal ended an invocation: nothing is pending
C14_Witness ==
    /\ error \in ProviderMessages
    /\ ~isGenerating
    /\ gens = {}
    /\ validations = {}

\* C15: an invocation of the mounted workspace that fails after its
\* precondition check ends with its own non-empty message in place of any
\* other and the generating flag false, so that the generate button is enabled
\* whenever images and prompt are still non-empty.
C15_FailureLeavesWorkspaceUsable ==
    [][ \A g \in LiveGens :
          /\ \A resp \in VisionResponses :
                (generateImageVision(g, resp) /\ ~CallSucceeded(resp)) =>
                    /\ error' = VisionThrown(resp)
                    /\ error' # EmptyMsg
                    /\ ~isGenerating'
                    /\ (Len(uploadedImages') > 0 /\ ~Blank(prompt'))
                           => ~GenerateDisabled'
          /\ \A resp \in ImageResponses :
                (generateImageImage(g, resp) /\ ~CallSucceeded(resp)) =>
                    /\ error' = ImageThrown(resp)
                    /\ error' # EmptyMsg
                    /\ ~isGenerating'
                    /\ (Len(uploadedImages') > 0 /\ ~Blank(prompt'))
                           => ~GenerateDisabled'
      ]_vars

\* after an unparsable response the message is shown and the generate button
\* is enabled again
C15_Witness ==
    /\ error = MsgJSONSyntax
    /\ ~isGenerating
    /\ ~GenerateDisabled
    /\ WorkspaceShown

\* C16: once a failed generation or a refused file has set a message, the
\* completion of a file read that was already pending at that moment, with no
\* file offered since, leaves the message as it is.
C16_Original ==
    [][ \A r \in reads :
          (/\ readerOnload(r)
           /\ r.id \in readsBeforeError
           /\ error # EmptyMsg) => error' = error ]_vars

\* C17: uploadedImages grows only by reader.onload appending the data URL of
\* one image file at the end, and no step of an upload removes, reorders or
\* alters an image; wherever the picker or the drop zone takes a file list,
\* it starts one read per image file of the list and none for any other
\* file, the picker sets the image-files-only message when the list holds a
\* non-image file, and the drop zone sets no message.
C17_UploadOnlyAppendsImages ==
    /\ [](\A files \in FileLists :
            (WorkspaceShown /\ ReadSlotsFree(files)) =>
                LET st == [error |-> error, reads |-> reads]
                    picked == UploadEach(files, st)
                    dropped == UploadEach(ImagesOf(files), st)
                IN  /\ reads \subseteq picked.reads
                    /\ Cardinality(picked.reads) =
                           Cardinality(reads) + Len(ImagesOf(files))
                    /\ \A r \in picked.reads \ reads :
                           \E i \in 1..Len(files) :
                               /\ IsImageFile(files[i])
                               /\ r.url = DataURL(files[i])
                    /\ ((\E i \in 1..Len(files) : ~IsImageFile(files[i]))
                           => picked.error = MsgImagesOnly)
                    /\ dropped.reads = picked.reads
                    /\ dropped.error = error)
    /\ [][ /\ \A r \in reads :
                 readerOnload(r) =>
                     /\ uploadedImages' = Append(uploadedImages, r.url)
                     /\ \E f \in Files : IsImageFile(f) /\ r.url = DataURL(f)
           /\ Len(uploadedImages') > Len(uploadedImages) =>
                 \E r \in reads : readerOnload(r)
           /\ uploadedImages' # uploadedImages =>
                 \/ \E r \in reads : readerOnload(r)
                 \/ \E index \in 1..MaxImages : removeImage(index)
                 \/ refreshGeneration
                 \/ credential' # credential
           /\ \A r \in reads' \ reads :
                 /\ uploadedImages' = uploadedImages
                 /\ \E f \in Files : IsImageFile(f) /\ r.url = DataURL(f)
         ]_vars

\* two images were read and appended, and a non-image file was then refused
C17_Witness ==
    /\ Len(uploadedImages) = MaxImages
    /\ \A i \in 1..Len(uploadedImages) : uploadedImages[i].mediatype[1] = "image"
    /\ error = MsgImagesOnly
    /\ reads = {}

\* C18: a generation of the mounted workspace that was pending at the last
\* reset does not set the Generated Image when it succeeds, and a file read
\* that was pending at the last reset, with no file offered since, does not
\* append to the empty image sequence.
C18_Original ==
    [][ /\ \A g \in LiveGens : \A resp \in ImageResponses :
              (/\ generateImageImage(g, resp)
               /\ g.id \in gensBeforeReset
               /\ generatedImage = NoImage) => generatedImage' = NoImage
        /\ \A r \in reads :
              (/\ readerOnload(r)
               /\ r.id \in readsBeforeReset
               /\ uploadedImages = <<>>) => uploadedImages' = <<>>
      ]_vars

\* C19: on the entry screen, the success response of a validation request
\* of an earlier instance of the entry screen, submitted before the logout
\* that brought the screen back, leaves the credential absent.
C19_Original ==
    [][ \A v \in validations :
          (/\ validateAPIKeyResume(v, "ok")
           /\ EntryShown
           /\ ~v.live) => credential' = NoKey ]_vars

====
